---- MODULE Spec2Model ----
(***************************************************************************)
(* Model of src/src/App.jsx (FileCompressor): the base64 helpers, the gzip *)
(* adapter, the two upload handlers with their asynchronous continuations  *)
(* and the two download handlers.                                          *)
(*                                                                         *)
(* Representation.  A JavaScript string is a sequence of character codes   *)
(* (String.fromCharCode / charCodeAt are then what they are in the         *)
(* language: the code unit n for the number n).  A Uint8Array, a Blob's    *)
(* content and a file's content are sequences of bytes 0..255.  A file     *)
(* name is a sequence of name pieces, of which ".compressed.txt" is one,   *)
(* so that appending the suffix and String.prototype.replace of its first  *)
(* occurrence are computed as the code computes them.                      *)
(***************************************************************************)
EXTENDS Integers, Sequences, FiniteSets, TLC

VARIABLES
    compressedText,   \* useState("")     line 4
    fileName,         \* useState("")     line 5
    restoredBlob,     \* useState(null)   line 6
    error,            \* useState(null)   line 7
    isCompressing,    \* useState(false)  line 8
    isDecompressing,  \* useState(false)  line 9
    compressRuns,     \* pending continuations of handleFileUpload (await at line 55)
    restoreRuns,      \* pending continuations of handleTxtUpload (reader, await at line 88)
    download,         \* the artifact last handed to the browser by a.click()
    restoredFrom,     \* history: the file whose run executed setRestoredBlob (line 90)
    pc, u8, cs, b64, out   \* the codec exercised on its own (lines 12-30)

appVars == <<compressedText, fileName, restoredBlob, error, isCompressing,
             isDecompressing, compressRuns, restoreRuns, download, restoredFrom>>
codecVars == <<pc, u8, cs, b64, out>>
vars == <<appVars, codecVars>>

----------------------------------------------------------------------------
(* Bounds of the model. *)

MaxLen == 3
MaxChunk == 4
MaxFileLen == 1

(* Byte values the codec is exercised on, and the byte a modelled file holds. *)
ByteVals == {0, 1, 127, 128, 255}
FileBytes == {255}

RECURSIVE SeqsUpTo(_, _)
SeqsUpTo(S, n) ==
    IF n = 0 THEN {<<>>}
    ELSE LET shorter == SeqsUpTo(S, n - 1)
         IN  shorter \cup {Append(s, x) : s \in {t \in shorter : Len(t) = n - 1}, x \in S}

----------------------------------------------------------------------------
(* Results of operations that may throw. *)

Ok(v) == [ok |-> TRUE, value |-> v, err |-> "none"]
Throw(e) == [ok |-> FALSE, value |-> <<>>, err |-> e]

----------------------------------------------------------------------------
(* btoa / atob: the platform's base64 over "binary strings". *)

PAD == <<61>>
Whitespace == {9, 10, 12, 13, 32}

(* The character code of the base64 digit with value i in 0..63. *)
B64Code(i) ==
    IF i < 26 THEN 65 + i
    ELSE IF i < 52 THEN 97 + (i - 26)
    ELSE IF i < 62 THEN 48 + (i - 52)
    ELSE IF i = 62 THEN 43
    ELSE 47

(* The value of the base64 digit with character code c, -1 when c is none. *)
B64Index(c) ==
    IF c >= 65 /\ c <= 90 THEN c - 65
    ELSE IF c >= 97 /\ c <= 122 THEN c - 97 + 26
    ELSE IF c >= 48 /\ c <= 57 THEN c - 48 + 52
    ELSE IF c = 43 THEN 62
    ELSE IF c = 47 THEN 63
    ELSE -1

RECURSIVE btoaGroups(_)
btoaGroups(s) ==
    IF Len(s) = 0 THEN <<>>
    ELSE IF Len(s) = 1 THEN
        <<B64Code(s[1] \div 4), B64Code((s[1] % 4) * 16)>> \o PAD \o PAD
    ELSE IF Len(s) = 2 THEN
        <<B64Code(s[1] \div 4),
          B64Code((s[1] % 4) * 16 + s[2] \div 16),
          B64Code((s[2] % 16) * 4)>> \o PAD
    ELSE
        <<B64Code(s[1] \div 4),
          B64Code((s[1] % 4) * 16 + s[2] \div 16),
          B64Code((s[2] % 16) * 4 + s[3] \div 64),
          B64Code(s[3] % 64)>> \o btoaGroups(SubSeq(s, 4, Len(s)))

(* btoa(binary): throws when a character is outside U+0000..U+00FF. *)
btoa(binary) ==
    IF \E i \in 1..Len(binary) : binary[i] > 255
    THEN Throw("InvalidCharacterError")
    ELSE Ok(btoaGroups(binary))

RECURSIVE atobGroups(_)
atobGroups(d) ==
    IF Len(d) = 0 THEN <<>>
    ELSE IF Len(d) = 2 THEN
        <<B64Index(d[1]) * 4 + B64Index(d[2]) \div 16>>
    ELSE IF Len(d) = 3 THEN
        <<B64Index(d[1]) * 4 + B64Index(d[2]) \div 16,
          (B64Index(d[2]) % 16) * 16 + B64Index(d[3]) \div 4>>
    ELSE
        <<B64Index(d[1]) * 4 + B64Index(d[2]) \div 16,
          (B64Index(d[2]) % 16) * 16 + B64Index(d[3]) \div 4,
          (B64Index(d[3]) % 4) * 64 + B64Index(d[4])>> \o atobGroups(SubSeq(d, 5, Len(d)))

(* StripPadding with a slip: only one closing "=" is removed. *)
StripPaddingOne(d) ==
    IF Len(d) % 4 # 0 \/ Len(d) = 0 THEN d
    ELSE IF d[Len(d)] # PAD[1] THEN d
    ELSE SubSeq(d, 1, Len(d) - 1)

(* Step 2 of the platform's forgiving-base64 decode: when the length is a
   multiple of 4, one or two trailing "=" are removed. *)
StripPadding(d) ==
    IF Len(d) % 4 # 0 \/ Len(d) = 0 THEN d
    ELSE IF d[Len(d)] # PAD[1] THEN d
    ELSE IF d[Len(d) - 1] # PAD[1] THEN SubSeq(d, 1, Len(d) - 1)
    ELSE SubSeq(d, 1, Len(d) - 2)

(* atob(data): ASCII whitespace is removed first; then the padding; a
   remaining length of 1 modulo 4 or a character that is no base64 digit
   throws. *)
atob(data) ==
    LET stripped == SelectSeq(data, LAMBDA c : c \notin Whitespace)
        d == StripPadding(stripped)
    IN  IF Len(d) % 4 = 1 THEN Throw("InvalidCharacterError")
        ELSE IF \E i \in 1..Len(d) : B64Index(d[i]) = -1
        THEN Throw("InvalidCharacterError")
        ELSE Ok(atobGroups(d))

----------------------------------------------------------------------------
(* uint8ToBase64 and base64ToUint8, lines 12-30. *)

chunkSize == 32768

(* u8.subarray(begin, end): end is clamped to the length. *)
subarray(a, begin, end) ==
    SubSeq(a, begin + 1, IF end < Len(a) THEN end ELSE Len(a))

(* String.fromCharCode.apply(null, chunk): one code unit per byte. *)
fromCharCode(chunk) == [i \in 1..Len(chunk) |-> chunk[i] % 65536]

(* The loop with a slip: u8.subarray(i, chunkSize) for (i, i + chunkSize). *)
RECURSIVE chunkLoopFromNoOffset(_, _, _, _)
chunkLoopFromNoOffset(a, size, i, binary) ==
    IF i < Len(a)
    THEN chunkLoopFromNoOffset(a, size, i + size,
                               binary \o fromCharCode(subarray(a, i, size)))
    ELSE binary

RECURSIVE chunkLoopFrom(_, _, _, _)
chunkLoopFrom(a, size, i, binary) ==
    IF i < Len(a)
    THEN chunkLoopFrom(a, size, i + size,
                       binary \o fromCharCode(subarray(a, i, i + size)))
    ELSE binary

(* The for loop of lines 15-18, started at i = 0 with binary = "". *)
chunkLoop(a, size) == chunkLoopFrom(a, size, 0, <<>>)

uint8ToBase64With(a, size) == btoa(chunkLoop(a, size))

uint8ToBase64(a) == uint8ToBase64With(a, chunkSize)

(* base64ToUint8 with a slip: the loop of lines 26-28 stops one short, and
   the last element keeps the 0 of new Uint8Array(len). *)
base64ToUint8ShortLoop(text) ==
    LET binary == atob(text)
    IN  IF ~binary.ok THEN binary
        ELSE Ok([i \in 1..Len(binary.value) |->
                    IF i < Len(binary.value) THEN binary.value[i] % 256 ELSE 0])

(* u8[i] = binary.charCodeAt(i) stores the code modulo 256. *)
base64ToUint8(text) ==
    LET binary == atob(text)
    IN  IF ~binary.ok THEN binary
        ELSE Ok([i \in 1..Len(binary.value) |-> binary.value[i] % 256])

----------------------------------------------------------------------------
(* compress and decompress, lines 33-43.  CompressionStream("gzip") and
   DecompressionStream("gzip") are the platform's: the stream format is
   stood for by a two-byte magic number, the stored bytes and a one-byte
   length trailer, which keeps the two properties the handlers rely on, that
   decompress inverts compress and that it rejects what is no such stream. *)

GzipMagic == <<31, 139>>

gzip(bytes) == GzipMagic \o bytes \o <<Len(bytes) % 256>>

(* await compress(blob): the compressed bytes, or the rejection of the
   pipe when the file can no longer be read. *)
compress(blob) == {Ok(gzip(blob)), Throw("NotReadableError")}

(* await decompress(u8): rejects with a TypeError on a malformed stream. *)
decompress(a) ==
    IF /\ Len(a) >= 3
       /\ SubSeq(a, 1, 2) = GzipMagic
       /\ a[Len(a)] = (Len(a) - 3) % 256
    THEN Ok(SubSeq(a, 3, Len(a) - 1))
    ELSE Throw("TypeError")

----------------------------------------------------------------------------
(* Values of the component's state. *)

NULL == <<"null">>
Blob(bytes) == <<"Blob", bytes>>
BlobBytes(blob) == blob[2]
SUFFIX == ".compressed.txt"
RestoreFailureText == "Error decompressing file. Maybe wrong TXT format?"
File(name, content) == [name |-> name, content |-> content]
(* What a.click() saves: the a.download name, the Blob's bytes and its type. *)
Saved(name, content, type) == [name |-> name, content |-> content, type |-> type]
NoDownload == Saved(<<>>, <<>>, "none")

(* new Blob([text], {type: "text/plain"}): the text in UTF-8. *)
RECURSIVE utf8Encode(_)
utf8Encode(text) ==
    IF Len(text) = 0 THEN <<>>
    ELSE LET c == Head(text)
             first == IF c < 128 THEN <<c>>
                      ELSE IF c < 2048 THEN <<192 + (c \div 64), 128 + (c % 64)>>
                      ELSE <<224 + (c \div 4096), 128 + ((c \div 64) % 64), 128 + (c % 64)>>
         IN  first \o utf8Encode(Tail(text))

(* reader.readAsText(file): the bytes decoded as UTF-8.  An ASCII byte is its
   character; a byte that begins no well-formed sequence is U+FFFD.  The
   files of this model hold no byte >= 128 but 255, which no well-formed
   sequence contains. *)
readAsText(bytes) == [i \in 1..Len(bytes) |-> IF bytes[i] < 128 THEN bytes[i] ELSE 65533]

(* name.replace(".compressed.txt", ""): the first occurrence is removed. *)
RECURSIVE replaceSuffix(_)
replaceSuffix(name) ==
    IF Len(name) = 0 THEN <<>>
    ELSE IF Head(name) = SUFFIX THEN Tail(name)
    ELSE <<Head(name)>> \o replaceSuffix(Tail(name))

RemoveAt(s, i) == SubSeq(s, 1, i - 1) \o SubSeq(s, i + 1, Len(s))

----------------------------------------------------------------------------
(* The files the user can select. *)

(* The files of the user's folder: one per content, "file0" holding no
   byte, "file1" one byte, and so on, so that a name tells the content. *)
FileContents == SeqsUpTo(FileBytes, MaxFileLen)
NameOf(content) == <<"file", ToString(Len(content))>>
Files == {File(NameOf(c), c) : c \in FileContents}

(* Text files kept from elsewhere: a payload of an earlier session, ten zero
   bytes in base64 (text that decodes but is no gzip stream), and a "%". *)
OldTxtFiles ==
    {File(<<"old.bin", SUFFIX>>, utf8Encode(uint8ToBase64(gzip(<<>>)).value)),
     File(<<"zeros.txt">>, utf8Encode(uint8ToBase64(<<0, 0, 0, 0, 0, 0, 0, 0, 0, 0>>).value)),
     File(<<"notes.txt">>, <<37>>)}

(* What the user can make of a saved text download before selecting it in
   the restore panel (whose picker, accept=".txt", offers text files): the
   file as saved, the file with a line feed appended by an editor, the file
   with its "=" padding deleted, and the file under another name. *)
Unpadded(bytes) == SelectSeq(bytes, LAMBDA c : c # PAD[1])

TxtFilesFrom(d) ==
    IF d.type # "text/plain" THEN {}
    ELSE {File(d.name, d.content),
          File(d.name, d.content \o <<10>>),
          File(d.name, Unpadded(d.content)),
          File(<<"copy.txt">>, d.content)}

TxtFiles == OldTxtFiles \cup TxtFilesFrom(download)

----------------------------------------------------------------------------
(* The controls, lines 131-175. *)

(* The file input with a slip: no disabled attribute. *)
InputNeverDisabled == TRUE

OriginalFileInputEnabled == ~isCompressing
TxtFileInputEnabled == ~isDecompressing
DownloadTxtEnabled == ~(compressedText = <<>> \/ isCompressing)
DownloadRestoredEnabled == ~(restoredBlob = NULL \/ isDecompressing)

----------------------------------------------------------------------------
(* The handlers.  A handler runs to its first await (or to its end) in one
   step; each continuation is one further step. *)

AppInit ==
    /\ compressedText = <<>>
    /\ fileName = <<>>
    /\ restoredBlob = NULL
    /\ error = NULL
    /\ isCompressing = FALSE
    /\ isDecompressing = FALSE
    /\ compressRuns = <<>>
    /\ restoreRuns = <<>>
    /\ download = NoDownload
    /\ restoredFrom = NULL

(* handleFileUpload up to the await of line 55; files is e.target.files. *)
handleFileUpload(files) ==
    /\ OriginalFileInputEnabled
    /\ IF files = <<>>
       THEN UNCHANGED <<error, isCompressing, fileName, compressRuns>>
       ELSE /\ error' = NULL
            /\ isCompressing' = TRUE
            /\ fileName' = files[1].name
            /\ compressRuns' = Append(compressRuns, [file |-> files[1]])
    /\ UNCHANGED <<compressedText, restoredBlob, isDecompressing, restoreRuns,
                   download, restoredFrom>>

(* The try block of lines 55-57 once compress has settled with result r. *)
compressTry(r) == IF r.ok THEN uint8ToBase64(r.value) ELSE r

(* compressSettled with a slip: setIsCompressing(false) at the end of the
   try block, not in a finally. *)
compressSettledNoFinally(i, r) ==
    /\ i \in 1..Len(compressRuns)
    /\ r \in compress(compressRuns[i].file.content)
    /\ IF compressTry(r).ok
       THEN /\ compressedText' = compressTry(r).value
            /\ isCompressing' = FALSE
            /\ UNCHANGED error
       ELSE /\ error' = <<"Failed to compress file: ", compressTry(r).err>>
            /\ UNCHANGED <<compressedText, isCompressing>>
    /\ compressRuns' = RemoveAt(compressRuns, i)
    /\ UNCHANGED <<fileName, restoredBlob, isDecompressing, restoreRuns,
                   download, restoredFrom>>

(* Lines 55-62 from the point where compress settles with r. *)
compressSettled(i, r) ==
    /\ i \in 1..Len(compressRuns)
    /\ r \in compress(compressRuns[i].file.content)
    /\ IF compressTry(r).ok
       THEN /\ compressedText' = compressTry(r).value
            /\ UNCHANGED error
       ELSE /\ error' = <<"Failed to compress file: ", compressTry(r).err>>
            /\ UNCHANGED compressedText
    /\ isCompressing' = FALSE
    /\ compressRuns' = RemoveAt(compressRuns, i)
    /\ UNCHANGED <<fileName, restoredBlob, isDecompressing, restoreRuns,
                   download, restoredFrom>>

(* downloadTxt, lines 66-73. *)
downloadTxt ==
    /\ DownloadTxtEnabled
    /\ download' = Saved(Append(fileName, SUFFIX), utf8Encode(compressedText), "text/plain")
    /\ UNCHANGED <<compressedText, fileName, restoredBlob, error, isCompressing,
                   isDecompressing, compressRuns, restoreRuns, restoredFrom>>

(* handleTxtUpload, lines 76-98: the reader is started and the handler ends. *)
handleTxtUpload(files) ==
    /\ TxtFileInputEnabled
    /\ IF files = <<>>
       THEN UNCHANGED <<error, isDecompressing, restoreRuns>>
       ELSE /\ error' = NULL
            /\ isDecompressing' = TRUE
            /\ restoreRuns' = Append(restoreRuns,
                   [file |-> files[1], stage |-> "reading", bytes |-> <<>>])
    /\ UNCHANGED <<compressedText, fileName, restoredBlob, isCompressing,
                   compressRuns, download, restoredFrom>>

(* reader.onload, lines 84-88, up to the await of decompress: the decode
   either throws into the catch and finally of lines 91-95 or hands its
   bytes to decompress. *)
readerOnload(i) ==
    /\ i \in 1..Len(restoreRuns)
    /\ restoreRuns[i].stage = "reading"
    /\ LET compressedBase64 == readAsText(restoreRuns[i].file.content)
           compressedBytes == base64ToUint8(compressedBase64)
       IN  IF compressedBytes.ok
           THEN /\ restoreRuns' = [restoreRuns EXCEPT ![i].stage = "decompressing",
                                                      ![i].bytes = compressedBytes.value]
                /\ UNCHANGED <<error, isDecompressing>>
           ELSE /\ error' = <<compressedBytes.err,
                              RestoreFailureText>>
                /\ isDecompressing' = FALSE
                /\ restoreRuns' = RemoveAt(restoreRuns, i)
    /\ UNCHANGED <<compressedText, fileName, restoredBlob, isCompressing,
                   compressRuns, download, restoredFrom>>

(* decompressSettled with a slip: the catch block clears the result. *)
decompressSettledClearing(i) ==
    /\ i \in 1..Len(restoreRuns)
    /\ restoreRuns[i].stage = "decompressing"
    /\ LET decompressedBytes == decompress(restoreRuns[i].bytes)
       IN  IF decompressedBytes.ok
           THEN /\ restoredBlob' = Blob(decompressedBytes.value)
                /\ restoredFrom' = restoreRuns[i].file.name
                /\ UNCHANGED error
           ELSE /\ error' = <<decompressedBytes.err,
                              RestoreFailureText>>
                /\ restoredBlob' = NULL
                /\ UNCHANGED restoredFrom
    /\ isDecompressing' = FALSE
    /\ restoreRuns' = RemoveAt(restoreRuns, i)
    /\ UNCHANGED <<compressedText, fileName, isCompressing, compressRuns, download>>

(* Lines 88-95 from the point where decompress settles. *)
decompressSettled(i) ==
    /\ i \in 1..Len(restoreRuns)
    /\ restoreRuns[i].stage = "decompressing"
    /\ LET decompressedBytes == decompress(restoreRuns[i].bytes)
       IN  IF decompressedBytes.ok
           THEN /\ restoredBlob' = Blob(decompressedBytes.value)
                /\ restoredFrom' = restoreRuns[i].file.name
                /\ UNCHANGED error
           ELSE /\ error' = <<decompressedBytes.err,
                              RestoreFailureText>>
                /\ UNCHANGED <<restoredBlob, restoredFrom>>
    /\ isDecompressing' = FALSE
    /\ restoreRuns' = RemoveAt(restoreRuns, i)
    /\ UNCHANGED <<compressedText, fileName, isCompressing, compressRuns, download>>

(* The reader fails to read the file: its error event fires, and the reader
   of lines 83-97 has no onerror handler, so nothing runs. *)
readerError(i) ==
    /\ i \in 1..Len(restoreRuns)
    /\ restoreRuns[i].stage = "reading"
    /\ restoreRuns' = RemoveAt(restoreRuns, i)
    /\ UNCHANGED <<compressedText, fileName, restoredBlob, error, isCompressing,
                   isDecompressing, compressRuns, download, restoredFrom>>

(* The name downloadRestored gives the file, line 106. *)
restoredName ==
    IF replaceSuffix(fileName) = <<>> THEN <<"restored_file">>
    ELSE replaceSuffix(fileName)

(* downloadRestored, lines 101-108. *)
downloadRestored ==
    /\ DownloadRestoredEnabled
    /\ restoredBlob # NULL
    /\ download' = Saved(restoredName, BlobBytes(restoredBlob), "")
    /\ UNCHANGED <<compressedText, fileName, restoredBlob, error, isCompressing,
                   isDecompressing, compressRuns, restoreRuns, restoredFrom>>

(* The dismiss button of the error banner, lines 117-124. *)
dismissError ==
    /\ error # NULL
    /\ error' = NULL
    /\ UNCHANGED <<compressedText, fileName, restoredBlob, isCompressing,
                   isDecompressing, compressRuns, restoreRuns, download, restoredFrom>>

----------------------------------------------------------------------------
(* The component: every event of the page is one step. *)

CodecOff ==
    /\ pc = "off"
    /\ u8 = <<>>
    /\ cs = chunkSize
    /\ b64 = Ok(<<>>)
    /\ out = Ok(<<>>)

Init == AppInit /\ CodecOff

SelectOriginal ==
    /\ \E files \in {<<>>} \cup {<<f>> : f \in Files} : handleFileUpload(files)
    /\ UNCHANGED codecVars

CompressDone ==
    /\ \E i \in 1..Len(compressRuns) :
         \E r \in compress(compressRuns[i].file.content) : compressSettled(i, r)
    /\ UNCHANGED codecVars

DownloadTxt == downloadTxt /\ UNCHANGED codecVars

SelectTxt ==
    /\ \E files \in {<<>>} \cup {<<f>> : f \in TxtFiles} : handleTxtUpload(files)
    /\ UNCHANGED codecVars

ReadDone ==
    /\ \E i \in 1..Len(restoreRuns) : readerOnload(i)
    /\ UNCHANGED codecVars

ReadFailed ==
    /\ \E i \in 1..Len(restoreRuns) : readerError(i)
    /\ UNCHANGED codecVars

DecompressDone ==
    /\ \E i \in 1..Len(restoreRuns) : decompressSettled(i)
    /\ UNCHANGED codecVars

DownloadRestored == downloadRestored /\ UNCHANGED codecVars

DismissError == dismissError /\ UNCHANGED codecVars

Next ==
    \/ SelectOriginal
    \/ CompressDone
    \/ DownloadTxt
    \/ SelectTxt
    \/ ReadDone
    \/ ReadFailed
    \/ DecompressDone
    \/ DownloadRestored
    \/ DismissError

Spec == Init /\ [][Next]_vars

(* The event loop runs every continuation that is ready: a settled compress,
   a finished read (loaded or failed) and a settled decompress. *)
FairSpec ==
    /\ Spec
    /\ WF_vars(CompressDone)
    /\ WF_vars(ReadDone \/ ReadFailed)
    /\ WF_vars(DecompressDone)

----------------------------------------------------------------------------
(* The codec on its own: uint8ToBase64 on a byte sequence with a chunk size,
   then base64ToUint8 on the text. *)

ChunkSizes == (1..MaxChunk) \cup {chunkSize}

CodecInit ==
    /\ pc = "input"
    /\ u8 \in SeqsUpTo(ByteVals, MaxLen)
    /\ cs \in ChunkSizes
    /\ b64 = Ok(<<>>)
    /\ out = Ok(<<>>)

Encode ==
    /\ pc = "input"
    /\ b64' = uint8ToBase64With(u8, cs)
    /\ pc' = "encoded"
    /\ UNCHANGED <<u8, cs, out, appVars>>

Decode ==
    /\ pc = "encoded"
    /\ b64.ok
    /\ out' = base64ToUint8(b64.value)
    /\ pc' = "decoded"
    /\ UNCHANGED <<u8, cs, b64, appVars>>

CodecNext == Encode \/ Decode

CodecSpecInit == AppInit /\ CodecInit

CodecSpec == CodecSpecInit /\ [][CodecNext]_vars

----------------------------------------------------------------------------
(* Vocabulary of the properties. *)

(* The bytes downloadTxt saves after handleFileUpload succeeded on content b. *)
CompressedTxt(b) == utf8Encode(uint8ToBase64(gzip(b)).value)
CompressedTxtOf == [b \in FileContents |-> CompressedTxt(b)]

(* A text that is no canonical base64: a character that is neither one of
   the 64 digits nor "=", a length that is no multiple of 4, or a "=" that
   is not part of one or two closing "=". *)
Malformed(text) ==
    \/ \E i \in 1..Len(text) : B64Index(text[i]) = -1 /\ text[i] # PAD[1]
    \/ Len(text) % 4 # 0
    \/ \E i \in 1..Len(text) :
          /\ text[i] = PAD[1]
          /\ \/ i < Len(text) - 1
             \/ i = Len(text) - 1 /\ text[Len(text)] # PAD[1]

(* The step is the failure of a run: of the compress run i on result r, of
   the restore run i at its decode, of the restore run i at its decompress. *)
CompressFails(i, r) == compressSettled(i, r) /\ ~compressTry(r).ok
DecodeFails(i) ==
    readerOnload(i) /\ ~base64ToUint8(readAsText(restoreRuns[i].file.content)).ok
DecompressFails(i) == decompressSettled(i) /\ ~decompress(restoreRuns[i].bytes).ok

----------------------------------------------------------------------------
(* C2: for every byte sequence, of every length from 0 on, decoding the text
   that uint8ToBase64 produced gives the byte sequence back, and the text of
   the empty sequence is the empty string. *)
C2_CodecRoundTrip ==
    /\ pc = "decoded" => out = Ok(u8)
    /\ pc \in {"encoded", "decoded"} /\ u8 = <<>> => b64 = Ok(<<>>)

(* A two-byte input (padded text) with a zero byte and a byte >= 128 has
   been encoded and decoded. *)
C2_Witness == pc = "decoded" /\ u8 = <<0, 255>> /\ Len(b64.value) = 4

(* C3: for every byte sequence and every chunk size, the text of the chunk
   loop is the text of one btoa call on the whole input. *)
C3_ChunkIndependence ==
    pc \in {"encoded", "decoded"} => b64 = btoa(fromCharCode(u8))

(* Three bytes encoded in chunks of two: a last chunk shorter than the rest,
   and a chunk boundary that is no multiple of 3. *)
C3_Witness == pc = "encoded" /\ Len(u8) = 3 /\ cs = 2

----------------------------------------------------------------------------
(* C1: the text that the compress path saves for a file with content b,
   selected unmodified in the restore path, passes the decode and ends the
   run with restoredBlob holding exactly b, the flag down and no error raised
   by the run; and what downloadTxt saves is such a text. *)
C1_EndToEndRoundTrip ==
    [][/\ downloadTxt => \E F \in Files : download'.content = CompressedTxtOf[F.content]
       /\ \A i \in 1..Len(restoreRuns) :
            /\ readerOnload(i) =>
                 \A b \in FileContents :
                   restoreRuns[i].file.content = CompressedTxtOf[b] =>
                     /\ Len(restoreRuns') = Len(restoreRuns)
                     /\ restoreRuns'[i].stage = "decompressing"
                     /\ error' = error
            /\ decompressSettled(i) =>
                 \A b \in FileContents :
                   restoreRuns[i].file.content = CompressedTxtOf[b] =>
                     /\ restoredBlob' = Blob(b)
                     /\ isDecompressing' = FALSE
                     /\ error' = error]_vars

(* file1 was compressed, its text saved as file1.compressed.txt, and that
   file restored: restoredBlob holds the one byte of file1. *)
C1_Witness ==
    /\ restoredBlob = Blob(<<255>>)
    /\ restoredFrom = Append(NameOf(<<255>>), SUFFIX)
    /\ compressedText = uint8ToBase64(gzip(<<255>>)).value
    /\ ~isDecompressing

(* C4: a restore run on a text that is malformed (a character outside the
   alphabet and "=", or a bad length or padding) ends at its decode, with
   an error set, and never sets restoredBlob. *)
C4_MalformedRejected ==
    [][\A i \in 1..Len(restoreRuns) :
         /\ readerOnload(i) /\ Malformed(readAsText(restoreRuns[i].file.content)) =>
              /\ error' # NULL
              /\ isDecompressing' = FALSE
              /\ Len(restoreRuns') < Len(restoreRuns)
              /\ restoredBlob' = restoredBlob
         /\ decompressSettled(i) /\ Malformed(readAsText(restoreRuns[i].file.content)) =>
              restoredBlob' = restoredBlob]_vars

(* C5: the name downloadRestored offers is the name of the uploaded file
   that produced restoredBlob without its ".compressed.txt" suffix, and the
   default name when that name has no such suffix. *)
C5_RestoredNameFromUpload ==
    DownloadRestoredEnabled =>
        restoredName =
            IF restoredFrom[Len(restoredFrom)] = SUFFIX
            THEN SubSeq(restoredFrom, 1, Len(restoredFrom) - 1)
            ELSE <<"restored_file">>

(* C6: whenever the compressed-TXT download is enabled, what it saves is the
   text of some file F under the name of that same F followed by the suffix. *)
C6_DownloadConsistent ==
    DownloadTxtEnabled =>
        \E F \in Files :
            /\ utf8Encode(compressedText) = CompressedTxtOf[F.content]
            /\ Append(fileName, SUFFIX) = Append(F.name, SUFFIX)

(* C7: the step in which a run fails leaves compressedText and restoredBlob
   as they were; more, restoredBlob changes only in the step of a decompress
   that succeeded and compressedText only in the step of a compress and
   encode that succeeded, so a failed run leaves both as they were before it. *)
C7_FailedRunKeepsResults ==
    [][/\ \A i \in 1..Len(compressRuns) : \A r \in compress(compressRuns[i].file.content) :
            CompressFails(i, r) =>
                compressedText' = compressedText /\ restoredBlob' = restoredBlob
       /\ \A i \in 1..Len(restoreRuns) :
            DecodeFails(i) \/ DecompressFails(i) =>
                compressedText' = compressedText /\ restoredBlob' = restoredBlob
       /\ restoredBlob' # restoredBlob =>
            \E i \in 1..Len(restoreRuns) :
                decompressSettled(i) /\ decompress(restoreRuns[i].bytes).ok
       /\ compressedText' # compressedText =>
            \E i \in 1..Len(compressRuns) : \E r \in compress(compressRuns[i].file.content) :
                compressSettled(i, r) /\ compressTry(r).ok]_vars

(* A restore run has failed at decompress after an earlier one succeeded,
   with a compressed text present: both results are still there. *)
C7_Witness ==
    /\ error = <<"TypeError", RestoreFailureText>>
    /\ restoredBlob # NULL
    /\ compressedText # <<>>
    /\ restoreRuns = <<>>

(* C8: the step in which a stage fails sets error to the message of that
   failure, lowers the flag of the direction and ends the run. *)
C8_FailureSurfaced ==
    [][/\ \A i \in 1..Len(compressRuns) : \A r \in compress(compressRuns[i].file.content) :
            CompressFails(i, r) =>
                /\ error' = <<"Failed to compress file: ", r.err>>
                /\ isCompressing' = FALSE
                /\ Len(compressRuns') = Len(compressRuns) - 1
       /\ \A i \in 1..Len(restoreRuns) :
            DecodeFails(i) \/ DecompressFails(i) =>
                /\ error' # NULL
                /\ error'[2] = RestoreFailureText
                /\ isDecompressing' = FALSE
                /\ Len(restoreRuns') = Len(restoreRuns) - 1]_vars

(* A compress run has failed: its message is shown and the flag is down. *)
C8_Witness ==
    /\ error = <<"Failed to compress file: ", "NotReadableError">>
    /\ isCompressing = FALSE
    /\ compressRuns = <<>>

(* C9: a flag that is up comes down again. *)
C9_RunsTerminate ==
    /\ isCompressing ~> ~isCompressing
    /\ isDecompressing ~> ~isDecompressing

(* C10: at most one compress run and at most one restore run are in flight,
   and the download control of a direction is disabled while that direction
   has a run in flight. *)
C10_OneRunPerDirection ==
    /\ Len(compressRuns) <= 1
    /\ Len(restoreRuns) <= 1
    /\ Len(compressRuns) > 0 => ~DownloadTxtEnabled
    /\ Len(restoreRuns) > 0 => ~DownloadRestoredEnabled

(* A compress run and a restore run are in flight together, each direction
   holding an earlier result. *)
C10_Witness ==
    /\ Len(compressRuns) = 1
    /\ Len(restoreRuns) = 1
    /\ compressedText # <<>>
    /\ restoredBlob # NULL

====
